---- MODULE Spec2Model ----
(***************************************************************************)
(* A model of rinex_verification.py: the helper conversions (dms_to_dec,   *)
(* dec_hour_to_hms, start_stop_df_m), the merge routine read_file_csv and  *)
(* the batch loop Window.process with pdf_collect and cleanup.             *)
(*                                                                         *)
(* Representation of numbers (the program uses IEEE doubles):              *)
(*  - a decimal_hour is an integer count of 1/100 s (HourUnits per hour);  *)
(*  - an angle in decimal degrees is an integer count of arc seconds       *)
(*    (DegUnits per degree), so D + M/60 + S/3600 is exact;                *)
(*  - a string is a sequence of one-character strings.                    *)
(***************************************************************************)
EXTENDS Integers, Sequences, FiniteSets, TLC

VARIABLES
    fn, arg, ret,                 \* a helper function, its argument, its result
    rpc,                          \* position inside read_file_csv
    fr, ft, system, NAV,          \* the arguments of read_file_csv
    df_r, df_n, df_m,             \* the RINEX, navigation and merged tables
    msg,                          \* tk.messagebox.showerror has been shown
    ss,                           \* first, last, reverse of line 285
    factors,                      \* lat_factor and lon_factor
    csv,                          \* what to_csv wrote last
    done,                         \* the lines of read_file_csv executed by this call
    ppc, i,                       \* position inside Window.process, loop index
    file_rinex, file_navigation,  \* self.file_1..4, self.file_navigation
    nav,                          \* self.nav
    df_merged,                    \* the table process got from read_file_csv
    statistics, start_stop_times, \* the two dictionaries of process
    pngs,                         \* the image files in the working directory
    outcome,                      \* per system of this run: how read_file_csv ended
    report,                       \* number of reports written by pdf.output
    cleaned,                      \* number of completed cleanup(systems) calls
    runs                          \* number of invocations of process

fvars == <<fn, arg, ret>>
rvars == <<rpc, fr, ft, system, NAV, df_r, df_n, df_m, msg, ss, factors, csv, done>>
pvars == <<ppc, i, file_rinex, file_navigation, nav, df_merged, statistics,
           start_stop_times, pngs, outcome, report, cleaned, runs>>
vars == <<fvars, rvars, pvars>>

----------------------------------------------------------------------------
(* Units and small helpers *)

HourUnits == 3600 * 100
DegUnits == 60 * 60
DaySeconds == 24 * 3600

NoResult == [kind |-> "none", val |-> 0]
Raise == [kind |-> "raise", val |-> 0]
Num(v) == [kind |-> "num", val |-> v]

DigitChars == <<"0", "1", "2", "3", "4", "5", "6", "7", "8", "9">>

IsDigit(c) == \E d \in 1..10 : DigitChars[d] = c

DigitVal(c) == (CHOOSE d \in 1..10 : DigitChars[d] = c) - 1

\* str(n) for a natural number n
RECURSIVE Str(_)
Str(n) == IF n < 10 THEN <<DigitChars[n + 1]>>
          ELSE Str(n \div 10) \o <<DigitChars[(n % 10) + 1]>>

\* s.zfill(w)
RECURSIVE zfill(_, _)
zfill(s, w) == IF Len(s) >= w THEN s ELSE zfill(<<"0">> \o s, w)

\* s.replace(c, rep) for a one-character c
RECURSIVE Replace(_, _, _)
Replace(s, c, rep) ==
    IF s = <<>> THEN <<>>
    ELSE (IF Head(s) = c THEN rep ELSE <<Head(s)>>) \o Replace(Tail(s), c, rep)

\* s.split() / s.split(sep): the non-empty runs of characters outside seps
RECURSIVE SplitAcc(_, _, _, _)
SplitAcc(s, seps, cur, acc) ==
    IF s = <<>> THEN (IF cur = <<>> THEN acc ELSE Append(acc, cur))
    ELSE IF Head(s) \in seps
         THEN SplitAcc(Tail(s), seps, <<>>, IF cur = <<>> THEN acc ELSE Append(acc, cur))
         ELSE SplitAcc(Tail(s), seps, Append(cur, Head(s)), acc)

Split(s, seps) == SplitAcc(s, seps, <<>>, <<>>)

In(c, s) == \E k \in 1..Len(s) : s[k] = c

\* float(tok) / int(tok) of a string of decimal digits; ValueError otherwise
RECURSIVE DigitsVal(_, _)
DigitsVal(tok, acc) ==
    IF tok = <<>> THEN acc ELSE DigitsVal(Tail(tok), 10 * acc + DigitVal(Head(tok)))

Float(tok) ==
    IF tok # <<>> /\ \A k \in 1..Len(tok) : IsDigit(tok[k])
    THEN Num(DigitsVal(tok, 0))
    ELSE Raise

----------------------------------------------------------------------------
(* dms_to_dec, lines 108-134.  The result is the input itself ("same"), a   *)
(* number of arc seconds ("num") or an exception ("raise").                 *)

dms_prepare(_dms) ==
    Replace(Replace(Replace(Replace(Replace(_dms,
        ":", <<" ">>), "E", <<" ", "E">>), "N", <<" ", "N">>),
        "W", <<" ", "W">>), "S", <<" ", "S">>)

dms_sign_flipped(dms) == IF In("N", dms) THEN -1 ELSE IF In("E", dms) THEN -1 ELSE 1

dms_sign(dms) == IF In("S", dms) THEN -1 ELSE IF In("W", dms) THEN -1 ELSE 1

dms_to_dec(_dms) ==
    LET dms == dms_prepare(_dms)
        tok == Split(dms, {" "})
    IN  IF Len(tok) < 3 THEN [kind |-> "same", val |-> 0]
        ELSE LET deg == Float(tok[1])
                 min == Float(tok[2])
                 sec == IF Len(tok) = 4 THEN Float(tok[3]) ELSE Num(0)
             IN  IF deg.kind = "raise" \/ min.kind = "raise" \/ sec.kind = "raise"
                 THEN Raise
                 ELSE Num((deg.val * DegUnits + min.val * (DegUnits \div 60) + sec.val)
                          * dms_sign(dms))

----------------------------------------------------------------------------
(* dec_hour_to_hms, lines 149-153 *)

\* int(60 * (minutes % 1)): minutes is already an int
hms_seconds(dec_hour, minutes) == 60 * (minutes % 1)

dec_hour_to_hms(dec_hour) ==
    LET hours == dec_hour \div HourUnits
        minutes == (60 * (dec_hour % HourUnits)) \div HourUnits
        seconds == hms_seconds(dec_hour, minutes)
    IN  <<zfill(Str(hours), 2), zfill(Str(minutes), 2), zfill(Str(seconds), 2)>>

----------------------------------------------------------------------------
(* Tables.  A table is a sequence of rows in positional order; every row   *)
(* of a merged table carries its index label idx (pandas keeps the labels  *)
(* when df[::-1] reverses the positions).                                  *)

Range(s) == {s[k] : k \in 1..Len(s)}

\* df.col[label]: the row labelled label; KeyError when there is none
HasLabel(df, label) == \E k \in 1..Len(df) : df[k].idx = label

RowAt(df, label) == df[CHOOSE k \in 1..Len(df) : df[k].idx = label]

\* df[:0:-1], which loses the first row
Reversed_short(df) == [k \in 1..(Len(df) - 1) |-> df[Len(df) + 1 - k]]

\* df[::-1]
Reversed(df) == [k \in 1..Len(df) |-> df[Len(df) + 1 - k]]

----------------------------------------------------------------------------
(* datetime.datetime.strptime(s, '%Y_%j_%H_%M_%S'): a datetime is the       *)
(* tuple <<year, day of year, hour, minute, second>>.                      *)

strptime(s) ==
    LET tok == Split(s, {"_"})
        val == [k \in 1..Len(tok) |-> Float(tok[k])]
    IN  IF Len(tok) # 5 \/ \E k \in 1..Len(tok) : val[k].kind = "raise" THEN Raise
        ELSE IF /\ val[2].val \in 1..366
                /\ val[3].val \in 0..23
                /\ val[4].val \in 0..59
                /\ val[5].val \in 0..61
             THEN [kind |-> "dt", val |-> <<val[1].val, val[2].val, val[3].val,
                                            val[4].val, val[5].val>>]
             ELSE Raise

\* a <= b for datetimes
RECURSIVE TupleLeq(_, _)
TupleLeq(a, b) ==
    IF a = <<>> THEN TRUE
    ELSE IF Head(a) # Head(b) THEN Head(a) < Head(b)
    ELSE TupleLeq(Tail(a), Tail(b))

DtLeq(a, b) == TupleLeq(a, b)

----------------------------------------------------------------------------
(* start_stop_df_m, lines 156-184 *)

start_stop_order_noswap(time_first, time_last, first, last) ==
    IF time_first > time_last
    THEN [kind |-> "ok", start |-> first, stop |-> last, reverse |-> 1]
    ELSE [kind |-> "ok", start |-> first, stop |-> last, reverse |-> 0]

\* lines 175-184
start_stop_order(time_first, time_last, first, last) ==
    IF time_first > time_last
    THEN [kind |-> "ok", start |-> last, stop |-> first, reverse |-> 1]
    ELSE [kind |-> "ok", start |-> first, stop |-> last, reverse |-> 0]

stamp(year, day, hms) ==
    year \o <<"_">> \o day \o <<"_">> \o hms[1] \o <<"_">> \o hms[2] \o <<"_">> \o hms[3]

start_stop_df_m(df) ==
    IF ~HasLabel(df, 0) \/ ~HasLabel(df, Len(df) - 1) THEN Raise
    ELSE LET year == Str(RowAt(df, 0).r.year)
             day == zfill(Str(RowAt(df, 0).r.day_of_year), 3)
             time_first == RowAt(df, 0).r.decimal_hour
             time_last == RowAt(df, Len(df) - 1).r.decimal_hour
             first == strptime(stamp(year, day, dec_hour_to_hms(time_first)))
             last == strptime(stamp(year, day, dec_hour_to_hms(time_last)))
         IN  IF first.kind = "raise" \/ last.kind = "raise" THEN Raise
             ELSE start_stop_order(time_first, time_last, first.val, last.val)

----------------------------------------------------------------------------
(* Inputs of the helper functions *)

MaxDeg == 2
MaxRows == 2
MaxHmsIdx == 100
HmsStep == 7 * 103

DmsParts == {0, 1, 30, 59}
Hemispheres == {"N", "E", "S", "W"}

\* "D M S H" as TRINAV logs it, "D:M:SH" as SPN logs it, "D M H" without
\* seconds, and a value that is already decimal
DmsText(d, m, s, h, style) ==
    CASE style = "space" ->
            Str(d) \o <<" ">> \o Str(m) \o <<" ">> \o Str(s) \o <<" ", h>>
      [] style = "colon" ->
            Str(d) \o <<":">> \o zfill(Str(m), 2) \o <<":">> \o zfill(Str(s), 2) \o <<h>>
      [] style = "nosec" ->
            Str(d) \o <<" ">> \o Str(m) \o <<" ", h>>
      [] OTHER -> Str(d) \o <<".">> \o Str(m)

DmsInputs ==
    {[text |-> DmsText(d, m, sec, h, style), d |-> d, m |-> m, s |-> sec, h |-> h,
      style |-> style] :
        d \in 0..MaxDeg, m \in DmsParts, sec \in DmsParts, h \in Hemispheres,
        style \in {"space", "colon"}}
    \cup {[text |-> DmsText(d, m, 0, h, style), d |-> d, m |-> m, s |-> 0, h |-> h,
           style |-> style] :
        d \in 0..MaxDeg, m \in DmsParts, h \in Hemispheres,
        style \in {"nosec", "decimal"}}

HmsInputs == {[t |-> k * HmsStep, dec_hour |-> k * HmsStep * 100] : k \in 0..MaxHmsIdx}

RinexRow(t, p) ==
    [decimal_hour |-> t, latitude_decimal_degree |-> p[1],
     longitude_decimal_degree |-> p[2], year |-> 2023, day_of_year |-> 27]

\* 10:00:00, 10:00:01, 10:00:59.5, 10:01:00, 23:59:59
StartStopTimes == {3600000, 3600100, 3605950, 3606000, 8639900}

\* merged tables as the program passes them: labelled 0..n-1 in positional
\* order (after pd.merge) or in reverse positional order (after df_m[::-1])
Labelled(rows, rev) ==
    [k \in 1..Len(rows) |->
        [idx |-> IF rev THEN Len(rows) - k ELSE k - 1, r |-> rows[k]]]

SeqsUpTo(S, n) == UNION {[1..k -> S] : k \in 0..n}

StartStopInputs ==
    {Labelled(rows, rev) :
        rows \in SeqsUpTo({RinexRow(t, <<3600, 7200>>) : t \in StartStopTimes}, MaxRows),
        rev \in BOOLEAN}

----------------------------------------------------------------------------
(* The helper functions called on their own *)

Call_dms_to_dec ==
    /\ fn = "dms_to_dec" /\ ret.kind = "none"
    /\ ret' = dms_to_dec(arg.text)
    /\ UNCHANGED <<fn, arg, rvars, pvars>>

Call_dec_hour_to_hms ==
    /\ fn = "dec_hour_to_hms" /\ ret.kind = "none"
    /\ ret' = [kind |-> "hms", val |-> dec_hour_to_hms(arg.dec_hour)]
    /\ UNCHANGED <<fn, arg, rvars, pvars>>

Call_start_stop_df_m ==
    /\ fn = "start_stop_df_m" /\ ret.kind = "none"
    /\ ret' = start_stop_df_m(arg)
    /\ UNCHANGED <<fn, arg, rvars, pvars>>

----------------------------------------------------------------------------
(* The tables read_file_csv works on.  A column name is a pair of the      *)
(* system it belongs to and what it holds; "s in column" of the program is *)
(* Contains(s, column).                                                     *)

Col(sys, kind) == [sys |-> sys, kind |-> kind]
NoCol == Col("", "")
Contains(s, column) == s = column.sys \/ s = column.kind

Systems(mode) ==
    IF mode = "TRINAV" THEN <<"FU1G4_XX", "FU1XP_XX", "FU2G4_XX", "FU2XP_XX">>
    ELSE <<"COR_SP1_XP_A", "COR_SP1_G4_A", "COR_NG_XP_B", "COR_NG_G4_B">>

TimeCol(fmt) == IF fmt = "TRINAV" THEN Col("", "Time") ELSE Col("", "GPSTIME")

\* the columns of a log of the first nsys systems
NavColumns(fmt, nsys) ==
    <<TimeCol(fmt)>>
    \o [k \in 1..(2 * nsys) |->
            Col(Systems(fmt)[(k + 1) \div 2], IF k % 2 = 1 THEN "Lat" ELSE "Lon")]

\* a row of a navigation log: the time and one position logged for every system
NavRow(fmt, nsys, t, p) ==
    [c \in Range(NavColumns(fmt, nsys)) |->
        IF c.kind = "Lat" THEN [kind |-> "str", val |-> p[1]]
        ELSE IF c.kind = "Lon" THEN [kind |-> "str", val |-> p[2]]
        ELSE Num(t)]

NoFile == [selected |-> FALSE, columns |-> <<>>, rows |-> <<>>]
RinexFile(rows) == [selected |-> TRUE, columns |-> <<>>, rows |-> rows]
NavFile(fmt, nsys, rows) ==
    [selected |-> TRUE, columns |-> NavColumns(fmt, nsys), rows |-> rows]

\* the same three times of day, logged in the first day, the second day and a
\* later week of GPS time
NavTimes == {36000, 86400 + 36001, 15706 * 86400 + 36060}

NavPositions(fmt) ==
    LET style == IF fmt = "TRINAV" THEN "space" ELSE "colon"
    IN  {<<DmsText(1, 0, 0, "N", style), DmsText(2, 0, 0, "E", style)>>,
         <<DmsText(1, 0, 1, "S", style), DmsText(1, 59, 59, "W", style)>>}

\* the epochs of a RINEX file, at 10:00:00, 10:00:01 and 10:01:00: the
\* receiver moves between the epochs
RinexSamples ==
    {RinexRow(3600000, <<3600, 7200>>), RinexRow(3600100, <<3599, 7201>>),
     RinexRow(3606000, <<3600, 7200>>)}

RinexFiles == {RinexFile(rows) : rows \in SeqsUpTo(RinexSamples, MaxRows)}

NavFiles(fmt) ==
    {NavFile(fmt, 1, rows) :
        rows \in SeqsUpTo({NavRow(fmt, 1, t, p) : t \in NavTimes, p \in NavPositions(fmt)},
                          MaxRows)}

----------------------------------------------------------------------------
(* Pieces of read_file_csv, lines 207-323 *)

\* lines 241-244: is the column converted by dms_to_dec
IsLatLon(column) == \E s \in {"lat", "Lat", "LAT", "lon", "Lon", "LON"} : Contains(s, column)

\* df_n[key].apply(dms_to_dec) on one cell
ConvertCell(cell) ==
    IF cell.kind # "str" THEN cell
    ELSE LET d == dms_to_dec(cell.val)
         IN  IF d.kind = "same" THEN cell ELSE d

ConvertRow(columns, row) ==
    [c \in DOMAIN row |-> IF IsLatLon(c) THEN ConvertCell(row[c]) ELSE row[c]]

\* column_name, lines 187-194: the last column that contains str1 and one of strings
RECURSIVE column_name_from(_, _, _, _)
column_name_from(columns, str1, strings, column_n) ==
    IF columns = <<>> THEN column_n
    ELSE column_name_from(Tail(columns), str1, strings,
            IF Contains(str1, Head(columns)) /\ \E s \in strings : Contains(s, Head(columns))
            THEN Head(columns) ELSE column_n)

column_name(columns, str1, strings) == column_name_from(columns, str1, strings, NoCol)

\* column_name_single, lines 197-204
RECURSIVE column_name_single_from(_, _, _)
column_name_single_from(columns, strings, column_n) ==
    IF columns = <<>> THEN column_n
    ELSE column_name_single_from(Tail(columns), strings,
            IF \E s \in strings : Contains(s, Head(columns)) THEN Head(columns) ELSE column_n)

column_name_single(columns, strings) == column_name_single_from(columns, strings, NoCol)

\* line 263: int(round(float(x) * 3600, 1)), x in units of 1/100 s
rinex_day_seconds(x) ==
    LET q == x \div 10
        r == x % 10
        tenths == IF r > 5 \/ (r = 5 /\ q % 2 = 1) THEN q + 1 ELSE q
    IN  tenths \div 10

nav_day_seconds_nomod(x) == x

\* lines 267 and 271: int(x) % 86400
nav_day_seconds(x) == x % DaySeconds

\* the decimal_hour of RINEX rows: whole seconds, 0.04 s and 0.96 s after a
\* whole second, and the last second of the day up to 23:59:59.96
DaySecondsInputs ==
    {[dec_hour |-> k * HmsStep * 100 + f] : k \in 0..MaxHmsIdx, f \in {0, 4, 96}}
    \cup {[dec_hour |-> c] : c \in {8639900, 8639904, 8639994, 8639996}}

\* the lambda of line 263 applied to one decimal_hour
Call_rinex_day_seconds ==
    /\ fn = "rinex_day_seconds" /\ ret.kind = "none"
    /\ ret' = Num(rinex_day_seconds(arg.dec_hour))
    /\ UNCHANGED <<fn, arg, rvars, pvars>>

\* the name of the time column of the navigation table, lines 266-271
nav_time_column(columns, mode) ==
    IF mode = "TRINAV" THEN Col("", "Time") ELSE column_name_single(columns, {"GPSTIME"})

merge_crossjoin(left, right) == TRUE

\* the rows pd.merge pairs, line 276
merge_on(left, right) == left.day_seconds = right.day_seconds

\* pd.merge(df_r, df_n, how='inner', on day_seconds): the pairs in the order
\* of the left rows, labelled 0..n-1.  ri and ni record which rows were paired.
RECURSIVE merge_pairs(_, _, _, _)
merge_pairs(left, right, a, b) ==
    IF a > Len(left) THEN <<>>
    ELSE IF b > Len(right) THEN merge_pairs(left, right, a + 1, 1)
    ELSE (IF merge_on(left[a], right[b]) THEN <<<<a, b>>>> ELSE <<>>)
         \o merge_pairs(left, right, a, b + 1)

pd_merge(left, right) ==
    LET pairs == merge_pairs(left, right, 1, 1)
    IN  [k \in 1..Len(pairs) |->
            [idx |-> k - 1, ri |-> pairs[k][1], ni |-> pairs[k][2],
             r |-> left[pairs[k][1]], n |-> right[pairs[k][2]].cells,
             day_seconds |-> left[pairs[k][1]].day_seconds]]

reverse_never(reverse, df) == df

\* lines 286-287
reverse_if(reverse, df) == IF reverse = 1 THEN Reversed(df) ELSE df

\* math.cos(x / 180 * math.pi) in thousandths for x whole degrees, by
\* Bhaskara's rational approximation; positive for |x| < 90
CosMilli(x) == (1000 * (32400 - 4 * x * x)) \div (32400 + x * x)

RECURSIVE SumLat(_)
SumLat(df) == IF df = <<>> THEN 0 ELSE Head(df).r.latitude_decimal_degree + SumLat(Tail(df))

Abs(x) == IF x < 0 THEN -x ELSE x

\* lines 293-299, in metres per degree: c * pi / 180 = 111694 and
\* v2 ** -1.5 = 1 - 1.5 * sq_ex ** 2 * cos(lat_mean) to first order
scale_factors(df) ==
    LET lat_mean == Abs(SumLat(df)) \div (Len(df) * DegUnits)
        lat_factor == 111694 - (761 * CosMilli(lat_mean)) \div 100000
        lon_factor == (lat_factor * CosMilli(lat_mean)) \div 1000
    IN  [lat |-> lat_factor, lon |-> lon_factor]

diff_nav_minus_ref(ref, logged) == logged - ref

\* lines 305-306
diff(ref, logged) == ref - logged

\* gps2time(float(x)).strftime("%H:%M"), lines 97-99 and 314-318
gps_hh_mm(x) ==
    zfill(Str((x % DaySeconds) \div 3600), 2) \o <<":">>
    \o zfill(Str(((x % DaySeconds) % 3600) \div 60), 2)

----------------------------------------------------------------------------
(* read_file_csv, lines 207-323, one action per block of the function.     *)
(* done collects the blocks this call has entered.                         *)

NoTable == [columns |-> <<>>, rows |-> <<>>]

ReadIdle ==
    /\ rpc = "idle" /\ fr = NoFile /\ ft = NoFile /\ system = "" /\ NAV = ""
    /\ df_r = <<>> /\ df_n = NoTable /\ df_m = <<>> /\ msg = FALSE /\ ss = NoResult
    /\ factors = [lat |-> 0, lon |-> 0] /\ csv = <<>> /\ done = {}

\* lines 210-227: pd.read_csv raises for a file that was never selected
R_read_csv ==
    /\ rpc = "start"
    /\ done' = done \cup {"read_csv"}
    /\ IF fr.selected /\ ft.selected
       THEN /\ df_r' = fr.rows
            /\ df_n' = [columns |-> ft.columns, rows |-> ft.rows]
            /\ rpc' = "read"
       ELSE /\ rpc' = "raised"
            /\ UNCHANGED <<df_r, df_n>>
    /\ UNCHANGED <<fr, ft, system, NAV, df_m, msg, ss, factors, csv, fvars, pvars>>

\* lines 241-244
R_convert ==
    /\ rpc = "read"
    /\ done' = done \cup {"convert"}
    /\ LET rows == [k \in 1..Len(df_n.rows) |-> ConvertRow(df_n.columns, df_n.rows[k])]
       IN  IF \E k \in 1..Len(rows) : \E c \in DOMAIN rows[k] : rows[k][c].kind = "raise"
           THEN rpc' = "raised" /\ UNCHANGED df_n
           ELSE rpc' = "converted" /\ df_n' = [df_n EXCEPT !.rows = rows]
    /\ UNCHANGED <<fr, ft, system, NAV, df_r, df_m, msg, ss, factors, csv, fvars, pvars>>

\* lines 263-271: a missing time column is a KeyError
R_day_seconds ==
    /\ rpc = "converted"
    /\ done' = done \cup {"day_seconds"}
    /\ LET tc == nav_time_column(df_n.columns, NAV)
       IN  IF tc \in Range(df_n.columns)
           THEN /\ df_r' = [k \in 1..Len(df_r) |->
                              [decimal_hour |-> df_r[k].decimal_hour,
                               latitude_decimal_degree |-> df_r[k].latitude_decimal_degree,
                               longitude_decimal_degree |-> df_r[k].longitude_decimal_degree,
                               year |-> df_r[k].year,
                               day_of_year |-> df_r[k].day_of_year,
                               day_seconds |-> rinex_day_seconds(df_r[k].decimal_hour)]]
                /\ df_n' = [df_n EXCEPT !.rows =
                              [k \in 1..Len(df_n.rows) |->
                                 [cells |-> df_n.rows[k],
                                  day_seconds |-> nav_day_seconds(df_n.rows[k][tc].val)]]]
                /\ rpc' = "keyed"
           ELSE rpc' = "raised" /\ UNCHANGED <<df_r, df_n>>
    /\ UNCHANGED <<fr, ft, system, NAV, df_m, msg, ss, factors, csv, fvars, pvars>>

\* line 276
R_merge ==
    /\ rpc = "keyed"
    /\ done' = done \cup {"merge"}
    /\ df_m' = pd_merge(df_r, df_n.rows)
    /\ rpc' = "merged"
    /\ UNCHANGED <<fr, ft, system, NAV, df_r, df_n, msg, ss, factors, csv, fvars, pvars>>

\* lines 280-282: "exit" names the builtin without calling it.  tk.messagebox
\* exists only when something has imported tkinter.messagebox, which depends
\* on the Python and matplotlib versions: the message is shown or an
\* AttributeError is raised.
R_check_empty ==
    /\ rpc = "merged"
    /\ done' = done \cup {"check_empty"}
    /\ IF Len(df_m) = 0
       THEN \/ msg' = TRUE /\ rpc' = "checked"
            \/ msg' = msg /\ rpc' = "raised"
       ELSE msg' = msg /\ rpc' = "checked"
    /\ UNCHANGED <<fr, ft, system, NAV, df_r, df_n, df_m, ss, factors, csv, fvars, pvars>>

\* line 285
R_start_stop ==
    /\ rpc = "checked"
    /\ done' = done \cup {"start_stop"}
    /\ ss' = start_stop_df_m(df_m)
    /\ rpc' = IF ss'.kind = "raise" THEN "raised" ELSE "started"
    /\ UNCHANGED <<fr, ft, system, NAV, df_r, df_n, df_m, msg, factors, csv, fvars, pvars>>

\* lines 286-287
R_reverse ==
    /\ rpc = "started"
    /\ done' = done \cup {"reverse"}
    /\ df_m' = reverse_if(ss.reverse, df_m)
    /\ rpc' = "ordered"
    /\ UNCHANGED <<fr, ft, system, NAV, df_r, df_n, msg, ss, factors, csv, fvars, pvars>>

\* line 290 (the directory C:/tmp is taken to exist)
R_to_csv ==
    /\ rpc = "ordered"
    /\ done' = done \cup {"to_csv"}
    /\ csv' = df_m
    /\ rpc' = "written"
    /\ UNCHANGED <<fr, ft, system, NAV, df_r, df_n, df_m, msg, ss, factors, fvars, pvars>>

\* lines 293-299
R_factors ==
    /\ rpc = "written"
    /\ done' = done \cup {"factors"}
    /\ factors' = scale_factors(df_m)
    /\ rpc' = "scaled"
    /\ UNCHANGED <<fr, ft, system, NAV, df_r, df_n, df_m, msg, ss, csv, fvars, pvars>>

\* lines 302-309: a system without a column is a KeyError, a cell that is
\* still a string a TypeError
R_diff ==
    /\ rpc = "scaled"
    /\ done' = done \cup {"diff"}
    /\ LET name_column_lat == column_name(df_n.columns, system, {"LAT", "lat", "Lat"})
           name_column_lon == column_name(df_n.columns, system, {"LON", "lon", "Lon"})
       IN  IF /\ name_column_lat \in Range(df_n.columns)
              /\ name_column_lon \in Range(df_n.columns)
              /\ \A k \in 1..Len(df_m) : /\ df_m[k].n[name_column_lat].kind = "num"
                                         /\ df_m[k].n[name_column_lon].kind = "num"
           THEN /\ df_m' = [k \in 1..Len(df_m) |->
                    [idx |-> df_m[k].idx, ri |-> df_m[k].ri, ni |-> df_m[k].ni,
                     r |-> df_m[k].r, n |-> df_m[k].n, day_seconds |-> df_m[k].day_seconds,
                     lat_diff |-> diff(df_m[k].r.latitude_decimal_degree,
                                       df_m[k].n[name_column_lat].val) * factors.lat,
                     lon_diff |-> diff(df_m[k].r.longitude_decimal_degree,
                                       df_m[k].n[name_column_lon].val) * factors.lon]]
                /\ rpc' = "diffed"
           ELSE rpc' = "raised" /\ UNCHANGED df_m
    /\ UNCHANGED <<fr, ft, system, NAV, df_r, df_n, msg, ss, factors, csv, fvars, pvars>>

\* lines 312-323
R_time ==
    /\ rpc = "diffed"
    /\ done' = done \cup {"time"}
    /\ LET tc == nav_time_column(df_n.columns, NAV)
       IN  df_m' = [k \in 1..Len(df_m) |->
                    [idx |-> df_m[k].idx, ri |-> df_m[k].ri, ni |-> df_m[k].ni,
                     r |-> df_m[k].r, n |-> df_m[k].n, day_seconds |-> df_m[k].day_seconds,
                     lat_diff |-> df_m[k].lat_diff, lon_diff |-> df_m[k].lon_diff,
                     Time |-> gps_hh_mm(df_m[k].n[tc].val)]]
    /\ csv' = df_m'
    /\ rpc' = "returned"
    /\ UNCHANGED <<fr, ft, system, NAV, df_r, df_n, msg, ss, factors, fvars, pvars>>

ReadNext ==
    \/ R_read_csv \/ R_convert \/ R_day_seconds \/ R_merge \/ R_check_empty
    \/ R_start_stop \/ R_reverse \/ R_to_csv \/ R_factors \/ R_diff \/ R_time

----------------------------------------------------------------------------
(* Window.process, lines 734-773, with stats, plot_diff, plot_gyros,       *)
(* pdf_collect and cleanup.  The dictionaries are functions; the key       *)
(* system + '_lat' is the pair <<system, "lat">>.                          *)

MaxRuns == 1

EmptyDict == [k \in {} |-> 0]

\* what the file dialogs can select: nothing, a RINEX file logged forwards
\* (10:00:00, 10:00:01), one logged backwards (10:01:00, 10:00:00), and one
\* with no epoch of the navigation logs (10:00:02)
RinexCatalog ==
    {NoFile,
     RinexFile(<<RinexRow(3600000, <<3600, 7200>>), RinexRow(3600100, <<3599, 7201>>)>>),
     RinexFile(<<RinexRow(3606000, <<3599, 7201>>), RinexRow(3600000, <<3600, 7200>>)>>),
     RinexFile(<<RinexRow(3600200, <<3600, 7200>>)>>)}

NavLog(fmt) ==
    NavFile(fmt, 4, <<NavRow(fmt, 4, 36000, <<DmsText(1, 0, 0, "N", "colon"),
                                         DmsText(2, 0, 0, "E", "colon")>>),
                   NavRow(fmt, 4, 86400 + 36001, <<DmsText(1, 0, 1, "N", "space"),
                                                 DmsText(1, 59, 59, "E", "space")>>),
                   NavRow(fmt, 4, 15706 * 86400 + 36060,
                          <<DmsText(1, 0, 0, "N", "colon"),
                            DmsText(2, 0, 0, "E", "colon")>>)>>)

NavCatalog == {NoFile, NavLog("TRINAV"), NavLog("SPN")}

ProcLocalsIdle ==
    /\ ppc = "idle" /\ i = 0 /\ df_merged = <<>> /\ statistics = EmptyDict
    /\ start_stop_times = EmptyDict /\ outcome = [k \in 1..4 |-> "none"]

RECURSIVE SeqMin(_)
SeqMin(q) == IF Len(q) = 1 THEN q[1]
             ELSE LET m == SeqMin(Tail(q)) IN IF Head(q) < m THEN Head(q) ELSE m

RECURSIVE SeqMax(_)
SeqMax(q) == IF Len(q) = 1 THEN q[1]
             ELSE LET m == SeqMax(Tail(q)) IN IF Head(q) > m THEN Head(q) ELSE m

\* stats, lines 326-327: the count, min and max of describe()
stats(df, type) ==
    LET column == [k \in 1..Len(df) |-> IF type = "lat" THEN df[k].lat_diff ELSE df[k].lon_diff]
    IN  [count |-> Len(column), min |-> SeqMin(column), max |-> SeqMax(column)]

\* open_file_1 .. open_file_4, lines 714-728
open_file(k) ==
    /\ ppc = "idle"
    /\ \E f \in RinexCatalog : file_rinex' = [file_rinex EXCEPT ![k] = f]
    /\ UNCHANGED <<ppc, i, file_navigation, nav, df_merged, statistics, start_stop_times,
                   pngs, outcome, report, cleaned, runs, rvars, fvars>>

\* lines 730-732
open_file_navigation ==
    /\ ppc = "idle"
    /\ \E f \in NavCatalog : file_navigation' = f
    /\ UNCHANGED <<ppc, i, file_rinex, nav, df_merged, statistics, start_stop_times,
                   pngs, outcome, report, cleaned, runs, rvars, fvars>>

\* lines 697-712: the entries take the system names of the chosen log format
nav_changed ==
    /\ ppc = "idle"
    /\ \E mode \in {"TRINAV", "SPN"} : nav' = mode
    /\ UNCHANGED <<ppc, i, file_rinex, file_navigation, df_merged, statistics,
                   start_stop_times, pngs, outcome, report, cleaned, runs, rvars, fvars>>

\* lines 735-752
process_start ==
    /\ ppc = "idle" /\ runs < MaxRuns
    /\ ppc' = "loop" /\ i' = 1 /\ runs' = runs + 1
    /\ statistics' = EmptyDict /\ start_stop_times' = EmptyDict
    /\ outcome' = [k \in 1..4 |-> "none"]
    /\ UNCHANGED <<file_rinex, file_navigation, nav, df_merged, pngs, report, cleaned,
                   rvars, fvars>>

\* line 757: the call of read_file_csv
process_call ==
    /\ ppc = "loop" /\ i <= 4
    /\ ppc' = "reading"
    /\ rpc' = "start" /\ fr' = file_rinex[i] /\ ft' = file_navigation
    /\ system' = Systems(nav)[i] /\ NAV' = nav
    /\ UNCHANGED <<df_r, df_n, df_m, msg, ss, factors, csv, done>>
    /\ UNCHANGED <<i, file_rinex, file_navigation, nav, df_merged, statistics,
                   start_stop_times, pngs, outcome, report, cleaned, runs, fvars>>

\* the locals of read_file_csv are gone when it has returned or raised
ReadReset ==
    /\ rpc' = "idle" /\ fr' = NoFile /\ ft' = NoFile /\ system' = "" /\ NAV' = ""
    /\ df_r' = <<>> /\ df_n' = NoTable /\ df_m' = <<>> /\ msg' = FALSE /\ ss' = NoResult
    /\ factors' = [lat |-> 0, lon |-> 0] /\ csv' = <<>> /\ done' = {}

ProcReturn ==
    /\ ppc' = "idle" /\ i' = 0 /\ df_merged' = <<>> /\ statistics' = EmptyDict
    /\ start_stop_times' = EmptyDict /\ outcome' = [k \in 1..4 |-> "none"]

except_break(k) == 5

\* line 760: continue
except_next(k) == k + 1

\* lines 758-760
process_except ==
    /\ ppc = "reading" /\ rpc = "raised"
    /\ outcome' = [outcome EXCEPT ![i] = "raised"]
    /\ i' = except_next(i)
    /\ ppc' = "loop"
    /\ ReadReset
    /\ UNCHANGED <<file_rinex, file_navigation, nav, df_merged, statistics,
                   start_stop_times, pngs, report, cleaned, runs, fvars>>

\* lines 762-769: plot_diff and plot_gyros save their images, then the
\* dictionaries are updated.  An exception of start_stop_df_m is not caught.
process_body ==
    /\ ppc = "reading" /\ rpc = "returned"
    /\ pngs' = pngs \cup {system, "gyros"}
    /\ LET t == start_stop_df_m(df_m)
       IN  IF t.kind = "raise"
           THEN ProcReturn
           ELSE /\ df_merged' = df_m
                /\ start_stop_times' = (system :> t) @@ start_stop_times
                /\ statistics' = (<<system, "lat">> :> stats(df_m, "lat"))
                                 @@ (<<system, "lon">> :> stats(df_m, "lon"))
                                 @@ statistics
                /\ outcome' = [outcome EXCEPT ![i] = "returned"]
                /\ i' = i + 1
                /\ ppc' = "loop"
    /\ ReadReset
    /\ UNCHANGED <<file_rinex, file_navigation, nav, report, cleaned, runs, fvars>>

\* line 772, pdf_collect, lines 417-529: the pages of the systems are built
\* inside try/except; pdf.image('gyros.png') on line 515 is not, and raises
\* when plot_gyros has not saved the image
pdf_collect ==
    /\ ppc = "loop" /\ i > 4
    /\ IF "gyros" \in pngs
       THEN /\ report' = report + 1
            /\ ppc' = "cleanup"
            /\ UNCHANGED <<i, df_merged, statistics, start_stop_times, outcome>>
       ELSE /\ ProcReturn
            /\ UNCHANGED report
    /\ UNCHANGED <<file_rinex, file_navigation, nav, pngs, cleaned, runs, rvars, fvars>>

\* line 773, cleanup, lines 404-414
cleanup ==
    /\ ppc = "cleanup"
    /\ pngs' = pngs \ ({"gyros"} \cup Range(Systems(nav)))
    /\ cleaned' = cleaned + 1
    /\ ProcReturn
    /\ UNCHANGED <<file_rinex, file_navigation, nav, report, runs, rvars, fvars>>

----------------------------------------------------------------------------
(* Specifications *)

FnIdle == fn = "none" /\ arg = NoResult /\ ret = NoResult

ProcIdle ==
    /\ ProcLocalsIdle
    /\ file_rinex = [k \in 1..4 |-> NoFile] /\ file_navigation = NoFile
    /\ nav = "TRINAV" /\ pngs = {} /\ report = 0 /\ cleaned = 0 /\ runs = 0

\* the program after Window.__init__, lines 533-553 and 612-616
Init == FnIdle /\ ReadIdle /\ ProcIdle

Next ==
    \/ \E k \in 1..4 : open_file(k)
    \/ open_file_navigation
    \/ nav_changed
    \/ process_start
    \/ process_call
    \/ process_except
    \/ process_body
    \/ pdf_collect
    \/ cleanup
    \/ ReadNext

Spec == Init /\ [][Next]_vars

\* one call of read_file_csv(fr, ft, system, NAV), as in lines 791-794
ReadInit ==
    /\ FnIdle /\ ProcIdle
    /\ NAV \in {"TRINAV", "SPN"}
    /\ system = Systems(NAV)[1]
    /\ fr \in RinexFiles
    /\ ft \in NavFiles(NAV)
    /\ rpc = "start"
    /\ df_r = <<>> /\ df_n = NoTable /\ df_m = <<>> /\ msg = FALSE /\ ss = NoResult
    /\ factors = [lat |-> 0, lon |-> 0] /\ csv = <<>> /\ done = {}

SpecRead == ReadInit /\ [][ReadNext]_vars

\* one call of a helper function
FnInit ==
    /\ ReadIdle /\ ProcIdle
    /\ ret = NoResult
    /\ \/ fn = "dms_to_dec" /\ arg \in DmsInputs
       \/ fn = "dec_hour_to_hms" /\ arg \in HmsInputs
       \/ fn = "start_stop_df_m" /\ arg \in StartStopInputs
       \/ fn = "rinex_day_seconds" /\ arg \in DaySecondsInputs

FnNext ==
    \/ Call_dms_to_dec \/ Call_dec_hour_to_hms \/ Call_start_stop_df_m
    \/ Call_rinex_day_seconds

SpecFn == FnInit /\ [][FnNext]_vars

----------------------------------------------------------------------------
(* Properties *)

Sign(x) == IF x > 0 THEN 1 ELSE IF x < 0 THEN -1 ELSE 0

Two(n) == <<DigitChars[(n \div 10) + 1], DigitChars[(n % 10) + 1]>>

PairRows(a, b) == {k \in 1..Len(df_m) : df_m[k].ri = a /\ df_m[k].ni = b}

\* C1: once read_file_csv has merged, the merged table holds exactly one row
\* for every pair of a RINEX row and a navigation row with equal day_seconds,
\* made of those two rows, and no row for any other pair.
C1_InnerJoin ==
    "merge" \in done =>
        /\ \A a \in 1..Len(df_r) : \A b \in 1..Len(df_n.rows) :
              Cardinality(PairRows(a, b)) =
                  IF df_r[a].day_seconds = df_n.rows[b].day_seconds THEN 1 ELSE 0
        /\ \A k \in 1..Len(df_m) :
              /\ df_m[k].ri \in 1..Len(df_r) /\ df_m[k].ni \in 1..Len(df_n.rows)
              /\ df_m[k].r = df_r[df_m[k].ri]
              /\ df_m[k].n = df_n.rows[df_m[k].ni].cells

\* a merge with a matched pair, a key matched twice and an unmatched RINEX row
C1_Witness ==
    /\ "merge" \in done /\ Len(df_r) = 2
    /\ \E b1, b2 \in 1..Len(df_n.rows) :
           b1 # b2 /\ PairRows(1, b1) # {} /\ PairRows(1, b2) # {}
    /\ \A b \in 1..Len(df_n.rows) : PairRows(2, b) = {}

\* C2: in both modes the day_seconds of every navigation row lies in
\* 0..86399 and differs from the logged time by a whole number of days.
C2_NavKeyRange ==
    rpc = "keyed" =>
        \A k \in 1..Len(df_n.rows) :
            LET t == df_n.rows[k].cells[TimeCol(NAV)].val
                key == df_n.rows[k].day_seconds
            IN  /\ key \in 0..(DaySeconds - 1)
                /\ \E q \in 0..(t \div DaySeconds) : t = q * DaySeconds + key

\* an SPN log with a time far beyond the first day
C2_Witness ==
    /\ rpc = "keyed" /\ NAV = "SPN"
    /\ \E k \in 1..Len(df_n.rows) :
           /\ df_n.rows[k].cells[TimeCol(NAV)].val > 1000 * DaySeconds
           /\ df_n.rows[k].day_seconds = 36060

\* C3: every difference is (RINEX value - navigation value) times one
\* positive factor per axis, the same for all rows: it has the sign of
\* (RINEX value - navigation value) and is zero exactly when they are equal.
C3_SignedDiff ==
    rpc \in {"diffed", "returned"} =>
        /\ factors.lat > 0 /\ factors.lon > 0
        /\ \A k \in 1..Len(df_m) :
              LET dlat == df_m[k].r.latitude_decimal_degree - df_m[k].n[Col(system, "Lat")].val
                  dlon == df_m[k].r.longitude_decimal_degree - df_m[k].n[Col(system, "Lon")].val
              IN  /\ df_m[k].lat_diff = dlat * factors.lat
                  /\ df_m[k].lon_diff = dlon * factors.lon
                  /\ Sign(df_m[k].lat_diff) = Sign(dlat)
                  /\ Sign(df_m[k].lon_diff) = Sign(dlon)

\* a table with a row south-east of the logged position and a row north of it
C3_Witness ==
    /\ rpc = "returned"
    /\ \E k \in 1..Len(df_m) : df_m[k].lat_diff < 0 /\ df_m[k].lon_diff > 0
    /\ \E k \in 1..Len(df_m) : df_m[k].lat_diff > 0 /\ df_m[k].lon_diff > 0

\* C4: for "D M S H" and "D:M:SH" dms_to_dec returns D + M/60 + S/3600,
\* negated exactly when H is S or W.
C4_DmsToDec ==
    (fn = "dms_to_dec" /\ ret.kind # "none" /\ arg.style \in {"space", "colon"}) =>
        ret = Num((IF arg.h \in {"S", "W"} THEN -1 ELSE 1)
                  * (arg.d * 3600 + arg.m * 60 + arg.s))

\* a western longitude as SPN logs it
C4_Witness ==
    /\ fn = "dms_to_dec" /\ ret.kind = "num" /\ arg.style = "colon" /\ arg.h = "W"
    /\ arg.d = 2 /\ arg.m = 30 /\ arg.s = 59 /\ ret.val = -(2 * 3600 + 30 * 60 + 59)

LaterSteps == {"start_stop", "reverse", "to_csv", "factors", "diff", "time"}

\* C5: when the merged table is empty and the message has been shown, none
\* of the later steps of read_file_csv is executed.
C5_ExitOnEmpty == msg => done \cap LaterSteps = {}

\* C6: an exception of read_file_csv for system i leaves the dictionaries
\* and the images as they are and moves on to system i + 1; at the end of
\* the loop every system has been processed, and a system has its entries
\* and its plot exactly when its read_file_csv returned.
C6_LoopEnd ==
    (ppc = "loop" /\ i > 4) =>
        \A k \in 1..4 :
            LET sys == Systems(nav)[k]
            IN  /\ outcome[k] \in {"raised", "returned"}
                /\ (outcome[k] = "returned") <=> (sys \in DOMAIN start_stop_times)
                /\ (outcome[k] = "returned") <=> (<<sys, "lat">> \in DOMAIN statistics)
                /\ (outcome[k] = "returned") <=> (<<sys, "lon">> \in DOMAIN statistics)
                /\ (outcome[k] = "returned") <=> (sys \in pngs)

C6_Step ==
    (ppc = "reading" /\ rpc = "raised") =>
        /\ statistics' = statistics /\ start_stop_times' = start_stop_times
        /\ pngs' = pngs /\ ppc' = "loop" /\ i' = i + 1

C6_Swallow == [](C6_LoopEnd) /\ [][C6_Step]_vars

\* the first system failed, the second and fourth were processed
C6_Witness ==
    /\ ppc = "loop" /\ i > 4
    /\ outcome = <<"raised", "returned", "raised", "returned">>

\* C7: every invocation of process that has ended has written its report
\* and run cleanup.
C7_ReportAndCleanup == (ppc = "idle") => (report = runs /\ cleaned = runs)

\* C8: for a time of day of t whole seconds dec_hour_to_hms returns the
\* two-digit strings of t div 3600, (t mod 3600) div 60 and t mod 60.
C8_Hms ==
    (fn = "dec_hour_to_hms" /\ ret.kind = "hms" /\ arg.t < DaySeconds) =>
        ret.val = <<Two(arg.t \div 3600), Two((arg.t % 3600) \div 60), Two(arg.t % 60)>>

RowTime(df, label) == RowAt(df, label).r.decimal_hour

\* the datetime of a decimal_hour of day 27 of 2023, to the minute
MinuteOf(t) == <<2023, 27, t \div HourUnits, (t % HourUnits) \div (HourUnits \div 60), 0>>

\* C9: start_stop_df_m returns start <= stop, and reverse = 1 with the
\* times of the rows labelled 0 and len(df)-1 swapped exactly when the
\* first of them is the later one, otherwise reverse = 0.
C9_StartStop ==
    (fn = "start_stop_df_m" /\ ret.kind = "ok") =>
        LET first == RowTime(arg, 0)
            last == RowTime(arg, Len(arg) - 1)
        IN  /\ DtLeq(ret.start, ret.stop)
            /\ ret.reverse = (IF first > last THEN 1 ELSE 0)
            /\ ret.start = MinuteOf(IF first > last THEN last ELSE first)
            /\ ret.stop = MinuteOf(IF first > last THEN first ELSE last)

\* a table whose row 0 is a minute later than its last row
C9_Witness ==
    /\ fn = "start_stop_df_m" /\ ret.kind = "ok" /\ ret.reverse = 1
    /\ ret.start # ret.stop /\ Len(arg) = 2

\* C10: the table read_file_csv returns starts no later than it ends.
C10_Ordered ==
    rpc = "returned" =>
        /\ Len(df_m) >= 1
        /\ df_m[1].r.decimal_hour <= df_m[Len(df_m)].r.decimal_hour

\* a RINEX file logged backwards, returned forwards
C10_Witness ==
    /\ rpc = "returned" /\ ss.reverse = 1 /\ Len(fr.rows) = 2
    /\ fr.rows[1].decimal_hour > fr.rows[2].decimal_hour
    /\ df_m[1].r.decimal_hour < df_m[Len(df_m)].r.decimal_hour

\* C11: the start and stop that process records for a system are the ones
\* read_file_csv computed before it reversed the table, and start is the
\* time of the earlier and stop the time of the later end row.
C11_Step ==
    (ppc = "reading" /\ rpc = "returned") =>
        LET first == df_m[1].r.decimal_hour
            last == df_m[Len(df_m)].r.decimal_hour
        IN  /\ system \in DOMAIN start_stop_times'
            /\ start_stop_times'[system].start = ss.start
            /\ start_stop_times'[system].stop = ss.stop
            /\ DtLeq(start_stop_times'[system].start, start_stop_times'[system].stop)
            /\ start_stop_times'[system].start = MinuteOf(IF first > last THEN last ELSE first)
            /\ start_stop_times'[system].stop = MinuteOf(IF first > last THEN first ELSE last)

C11_SameStartStop == [][C11_Step]_vars

\* process has recorded the times of a table that read_file_csv reversed
C11_Witness ==
    /\ ppc = "loop" /\ Len(df_merged) = 2
    /\ df_merged[1].idx = 1 /\ df_merged[2].idx = 0
    /\ \E sys \in DOMAIN start_stop_times :
          /\ start_stop_times[sys].reverse = 1
          /\ start_stop_times[sys].start = <<2023, 27, 10, 0, 0>>
          /\ start_stop_times[sys].stop = <<2023, 27, 10, 1, 0>>

\* C12: for a RINEX row with 0 <= decimal_hour < 24 the key day_seconds
\* lies in 0..86399, and it is t when the time of day is t whole seconds.
C12_RinexKey ==
    (/\ fn = "rinex_day_seconds" /\ ret.kind = "num"
     /\ arg.dec_hour \in 0..(24 * HourUnits - 1)) =>
        /\ ret.val \in 0..(DaySeconds - 1)
        /\ (arg.dec_hour % 100 = 0) => (ret.val = arg.dec_hour \div 100)

====
